---- MODULE Spec2Model ----
(***************************************************************************)
(* Order placement and inventory consistency of Gastronome's Gateway.      *)
(*                                                                         *)
(* An order is placed by saving an Order document (DataAccess.saveDocument *)
(* or DataAccess.create, both end in document.save()).  Mongoose runs the  *)
(* schema validation first and the orderSchema.pre('save') hook after it;  *)
(* the hook starts one asynchronous task per line item (Promise.all over   *)
(* this.dishes.map), each of which reads the dish (Dish.findById), checks  *)
(* the inventory on the copy it read and writes the decremented copy back  *)
(* (dish.save).  The tasks of one save and the tasks of concurrent saves   *)
(* interleave at their awaits.                                             *)
(*                                                                         *)
(* Times are milliseconds, as the values of JavaScript Date objects.       *)
(***************************************************************************)
EXTENDS Integers, Sequences, FiniteSets

VARIABLES
    inventory,  \* Dish collection: the stored inventory of every dish
    orders,     \* Order collection: the persisted order documents
    att,        \* the save of each order document: request, position, locals
    clock,      \* the wall clock read by new Date()
    win,        \* one call of the orderScheduled validator on its own
    priceOf,    \* Dish collection: the stored price of every dish
    view,       \* what the last find of an order returned to its caller
    users,      \* User collection: the ids of the users that exist
    auth        \* one request passing through the protect middleware

rest == <<priceOf, view, users, auth>>

vars == <<inventory, orders, att, clock, win, rest>>

(***************************************************************************)
(* Bounds of the model.                                                    *)
(***************************************************************************)
NumAttempts == 2    \* order documents saved, concurrently or one after another
MaxItems == 2       \* line items of one order
MaxQty == 2         \* largest quantity of a line item
InvA == 2           \* initial inventory of dish "A"
InvB == 1           \* initial inventory of dish "B"
PriceA == 10        \* price of dish "A"
PriceB == 5         \* price of dish "B"
ClientTotal == 999  \* a totalPrice sent by the client in the request body
MaxClock == 2       \* the clock advances at most this far
NumUsers == 2       \* users that signed up
MaxPause == 2       \* minutes that may pass while a request is handled

Attempts == 1..NumAttempts
Dishes == {"A", "B"}              \* dishes of the catalog
DishIds == Dishes \cup {"X"}      \* "X" is a well-formed id of no dish
Quantities == -1..MaxQty
InitInventory == [d \in Dishes |-> IF d = "A" THEN InvA ELSE InvB]
price == [d \in Dishes |-> IF d = "A" THEN PriceA ELSE PriceB]

Hour == 60 * 60 * 1000
Minute == 60 * 1000
Second == 10 ^ 3

(***************************************************************************)
(* orderSchema.dishes: a list of {dish, quantity}.                         *)
(***************************************************************************)
LineItems == [dish : DishIds, quantity : Quantities]

DishLists == UNION {[1..n -> LineItems] : n \in 0..MaxItems}

(***************************************************************************)
(* orderSchema.orderScheduled.validate.validator                           *)
(***************************************************************************)
\* Date.setHours(getHours() + h) on a server whose local time has no
\* daylight-saving jump: the instant h hours later.
addHours(now, h) == now + h * Hour

\* return value >= oneHourLater && value <= sixHoursLater, written with a
\* strict lower comparison
inWindowStrict(value, oneHourLater, sixHoursLater) ==
    value > oneHourLater /\ value <= sixHoursLater

\* return value >= oneHourLater && value <= sixHoursLater
inWindow(value, oneHourLater, sixHoursLater) ==
    value >= oneHourLater /\ value <= sixHoursLater

(***************************************************************************)
(* The line-item task of the pre-save hook, on the dish document it read.  *)
(***************************************************************************)
NoDoc == [found |-> FALSE, inventory |-> 0, price |-> 0]

\* Dish.findById(item.dish): a copy of the stored dish, or null
findById(id) ==
    IF id \in Dishes
    THEN [found |-> TRUE, inventory |-> inventory[id], price |-> priceOf[id]]
    ELSE NoDoc

\* the stock check left out
insufficientNever(doc, quantity) == FALSE

\* if (dish.inventory < item.quantity)
insufficient(doc, quantity) == doc.inventory < quantity

\* dish.inventory -= item.quantity, on the copy that was read
decrement(doc, quantity) == doc.inventory - quantity

\* totalPrice += dish.price * item.quantity
lineTotal(doc, quantity) == doc.price * quantity

Surcharge == 30

\* the surcharge added to self-collection orders instead
deliveryFeeSwapped(isSelfCollection) == IF isSelfCollection THEN Surcharge ELSE 0

\* if (!this.isSelfCollection) totalPrice += 30
deliveryFee(isSelfCollection) == IF ~isSelfCollection THEN Surcharge ELSE 0

(***************************************************************************)
(* The state of one save.                                                  *)
(*   pc         "idle" (document not built yet), "validate", "hook",       *)
(*              "insert", "done"                                           *)
(*   dishes, isSelfCollection, orderScheduled, totalPrice                  *)
(*              the fields of the document                                 *)
(*   task       per line item: "find" (awaiting Dish.findById), "found"    *)
(*              (the dish copy is in doc), "end" (the callback returned)   *)
(*   doc        per line item: the dish copy read                          *)
(*   sum        the hook's local totalPrice                                *)
(*   nextCalls  the calls of next made by the hook, "error" or "ok"        *)
(*   outcome    what save reported to its caller: "none" while pending,    *)
(*              "invalid" (validation error), "error" (the hook's error),  *)
(*              "failed" (the insert failed), "saved"                      *)
(*   sent       the totalPrice of the request body                         *)
(*   id         the _id of the document (0: none yet)                      *)
(*   isNew      this.isNew: the document was never stored                  *)
(*   dirty      this.isModified('dishes')                                  *)
(*   isItDone   the completion flag of the document                        *)
(*   flagged    this.isModified('isItDone')                                *)
(*   omitted    the request gave no orderScheduled: the default was taken  *)
(*   coordinates, address                                                  *)
(*              whether location.coordinates, location.address are given   *)
(*   error      the error of the first failing line item: "none",          *)
(*              "DishNotFound" or "NotEnoughInventory"                     *)
(***************************************************************************)
Idle ==
    [pc |-> "idle", dishes |-> <<>>, isSelfCollection |-> FALSE,
     orderScheduled |-> 0, totalPrice |-> 0, task |-> <<>>, doc |-> <<>>,
     sum |-> 0, nextCalls |-> <<>>, outcome |-> "none", sent |-> 0,
     id |-> 0, isNew |-> TRUE, dirty |-> FALSE, isItDone |-> FALSE,
     omitted |-> FALSE, coordinates |-> FALSE, address |-> FALSE,
     error |-> "none", flagged |-> FALSE]

\* no order was read yet
NoView == [id |-> 0, totalPrice |-> 0, isItDone |-> FALSE, prices |-> <<>>]

\* the users that signed up, and a request that has not arrived yet
Users == 1..NumUsers

\* a JSON web token: whether jwt.verify accepts it (signed with jwtSecret
\* and not expired) and the user id of its payload;  NoToken: none given
Tokens == [valid : BOOLEAN, id : Users]

NoToken == [valid |-> FALSE, id |-> 0]

(***************************************************************************)
(* The state of one request in exports.protect.                            *)
(*   pc            "idle", "token", "verify", "find", "check", "grant",    *)
(*                 "done"                                                  *)
(*   authorization req.headers.authorization: its scheme and its token     *)
(*   cookie        req.cookies.jwt                                         *)
(*   token, decoded, currentUser                                           *)
(*                 the locals of the middleware (decoded: decoded.id)      *)
(*   user          req.user (0: not set)                                   *)
(*   outcome       "none" while pending, "next" (next() was called: the    *)
(*                 protected route is reached), "nextError" (next(err)),   *)
(*                 "thrown" (an awaited call threw: the handler rejected)  *)
(*   statusCode, message                                                   *)
(*                 of the error passed to next or thrown                   *)
(***************************************************************************)
IdleAuth ==
    [pc |-> "idle", authorization |-> [scheme |-> "none", token |-> NoToken],
     cookie |-> NoToken, token |-> NoToken, decoded |-> 0, currentUser |-> 0,
     user |-> 0, outcome |-> "none", statusCode |-> 0, message |-> "none"]

IdleWin == [pc |-> "idle", value |-> 0, now1 |-> 0, now2 |-> 0, result |-> FALSE]

Init ==
    /\ inventory = InitInventory
    /\ orders = {}
    /\ att = [a \in Attempts |-> Idle]
    /\ clock = 0
    /\ win = IdleWin
    /\ priceOf = price
    /\ view = NoView
    /\ users = Users
    /\ auth = IdleAuth

\* scheduled times a client asks for: one second too early, or the earliest
ScheduledTimes == {addHours(clock, 1) - Second, addHours(clock, 1)}

\* orderSchema.orderScheduled.default: now + 1 hour + 1 minute, with the
\* clock as it is when the document is built
defaultScheduled(now) == addHours(now, 1) + Minute

\* new Order(req.body): the document is built from the request body, the
\* defaults filled in, totalPrice included when the client sent one; save()
\* is called on it later
Build(a, body) ==
    /\ att[a].pc = "idle"
    /\ att' = [att EXCEPT ![a] =
                 [Idle EXCEPT !.pc = "validate", !.id = a,
                              !.dishes = body.dishes,
                              !.isSelfCollection = body.isSelfCollection,
                              !.omitted = body.omitted,
                              !.orderScheduled =
                                  IF body.omitted THEN defaultScheduled(clock)
                                  ELSE body.orderScheduled,
                              !.coordinates = body.coordinates,
                              !.address = body.address,
                              !.totalPrice = body.totalPrice,
                              !.sent = body.totalPrice]]
    /\ UNCHANGED <<inventory, orders, clock, win, rest>>

\* a request with its scheduled time and a well-formed delivery target:
\* either self-collection, or coordinates and address
Submit(a, ds, self, at, total) ==
    Build(a, [dishes |-> ds, isSelfCollection |-> self, omitted |-> FALSE,
              orderScheduled |-> at, coordinates |-> ~self, address |-> ~self,
              totalPrice |-> total])

\* what the schema's validators say of the document: dishes has no validator
\* of its length and quantity none of its value; orderScheduled has its
\* window; location.coordinates and location.address are required unless
\* isSelfCollection (required: function() { return !this.isSelfCollection; })
schemaValid(d) ==
    /\ inWindow(d.orderScheduled, addHours(clock, 1), addHours(clock, 6))
    /\ d.isSelfCollection \/ d.coordinates
    /\ d.isSelfCollection \/ d.address

\* the condition of the pre-save hook taken as always true
hookRunsAlways(r) == TRUE

\* if (this.isModified('dishes') || this.isNew)
hookRuns(r) == r.dirty \/ r.isNew

\* save() validates before it runs the pre-save hooks; a validation error
\* rejects the save
ValidateFail(a) ==
    /\ att[a].pc = "validate"
    /\ ~schemaValid(att[a])
    /\ att' = [att EXCEPT ![a].pc = "done", ![a].outcome = "invalid"]
    /\ UNCHANGED <<inventory, orders, clock, win, rest>>

\* the hook starts: when its condition holds this.dishes.map starts every
\* task, each up to its await Dish.findById; otherwise no task is started
ValidateOk(a) ==
    /\ att[a].pc = "validate"
    /\ schemaValid(att[a])
    /\ att' = [att EXCEPT ![a].pc = "hook",
                          ![a].task = [i \in 1..Len(att[a].dishes) |->
                                          IF hookRuns(att[a]) THEN "find" ELSE "end"],
                          ![a].doc = [i \in 1..Len(att[a].dishes) |-> NoDoc]]
    /\ UNCHANGED <<inventory, orders, clock, win, rest>>

\* const dish = await Dish.findById(item.dish)
ItemFind(a, i) ==
    /\ att[a].pc = "hook"
    /\ i \in 1..Len(att[a].dishes)
    /\ att[a].task[i] = "find"
    /\ att' = [att EXCEPT ![a].task[i] = "found",
                          ![a].doc[i] = findById(att[a].dishes[i].dish)]
    /\ UNCHANGED <<inventory, orders, clock, win, rest>>

\* a call of next by the hook: the first call decides the save, an error
\* rejects it at once
called(r, how) ==
    [r EXCEPT !.nextCalls = Append(@, how),
              !.outcome = IF r.nextCalls = <<>> /\ how = "error"
                          THEN "error" ELSE @]

\* if (!dish) return;  the missing dish skipped without an error
missingSkipped(r, i) == [r EXCEPT !.task[i] = "end"]

\* if (!dish) return next(new Error(`Dish not found with id ...`))
missing(r, i) ==
    [called(r, "error") EXCEPT !.task[i] = "end",
                               !.error = IF r.nextCalls = <<>>
                                         THEN "DishNotFound" ELSE @]

ItemMissing(a, i) ==
    /\ att[a].pc = "hook"
    /\ i \in 1..Len(att[a].dishes)
    /\ att[a].task[i] = "found"
    /\ ~att[a].doc[i].found
    /\ att' = [att EXCEPT ![a] = missing(att[a], i)]
    /\ UNCHANGED <<inventory, orders, clock, win, rest>>

\* if (dish.inventory < item.quantity) return next(new Error(`Not enough ...`))
ItemInsufficient(a, i) ==
    /\ att[a].pc = "hook"
    /\ i \in 1..Len(att[a].dishes)
    /\ att[a].task[i] = "found"
    /\ att[a].doc[i].found
    /\ insufficient(att[a].doc[i], att[a].dishes[i].quantity)
    /\ att' = [att EXCEPT ![a] =
                 [called(att[a], "error") EXCEPT
                     !.task[i] = "end",
                     !.error = IF att[a].nextCalls = <<>>
                               THEN "NotEnoughInventory" ELSE @]]
    /\ UNCHANGED <<inventory, orders, clock, win, rest>>

\* dish.inventory -= item.quantity; await dish.save(...): the value computed
\* on the copy is stored;  totalPrice += dish.price * item.quantity
ItemReserve(a, i) ==
    /\ att[a].pc = "hook"
    /\ i \in 1..Len(att[a].dishes)
    /\ att[a].task[i] = "found"
    /\ att[a].doc[i].found
    /\ ~insufficient(att[a].doc[i], att[a].dishes[i].quantity)
    /\ inventory' = [inventory EXCEPT ![att[a].dishes[i].dish] =
                        decrement(att[a].doc[i], att[a].dishes[i].quantity)]
    /\ att' = [att EXCEPT ![a].task[i] = "end",
                          ![a].sum = @ + lineTotal(att[a].doc[i],
                                                   att[a].dishes[i].quantity)]
    /\ UNCHANGED <<orders, clock, win, rest>>

\* Promise.all has resolved: the surcharge, this.totalPrice = totalPrice, and
\* the last line's next(); the hook's locals end with it
hookEnd(r) ==
    [called([r EXCEPT !.totalPrice = IF hookRuns(r)
                                     THEN r.sum + deliveryFee(r.isSelfCollection)
                                     ELSE @],
            "ok")
        EXCEPT !.pc = IF r.nextCalls = <<>> THEN "insert" ELSE "done",
               !.task = <<>>, !.doc = <<>>, !.sum = 0]

HookEnd(a) ==
    /\ att[a].pc = "hook"
    /\ \A i \in 1..Len(att[a].dishes) : att[a].task[i] = "end"
    /\ att' = [att EXCEPT ![a] = hookEnd(att[a])]
    /\ UNCHANGED <<inventory, orders, clock, win, rest>>

\* the document as stored
stored(a, r) ==
    [id |-> a, dishes |-> r.dishes, isSelfCollection |-> r.isSelfCollection,
     orderScheduled |-> r.orderScheduled, totalPrice |-> r.totalPrice,
     isItDone |-> r.isItDone, coordinates |-> r.coordinates,
     address |-> r.address]

\* save() of a stored document sets the paths that were modified: isItDone,
\* and dishes and totalPrice when the hook assigned them
written(o, r) ==
    IF o.id # r.id THEN o
    ELSE [o EXCEPT !.isItDone = IF r.flagged THEN r.isItDone ELSE @,
                   !.dishes = IF r.dirty THEN r.dishes ELSE @,
                   !.totalPrice = IF hookRuns(r) THEN r.totalPrice ELSE @]

\* the hooks passed: the document is inserted, or the stored one updated,
\* and save resolves
InsertOk(a) ==
    /\ att[a].pc = "insert"
    /\ orders' = IF att[a].isNew
                 THEN orders \cup {stored(a, att[a])}
                 ELSE {written(o, att[a]) : o \in orders}
    /\ att' = [att EXCEPT ![a].pc = "done", ![a].outcome = "saved"]
    /\ UNCHANGED <<inventory, clock, win, rest>>

\* the insert fails: save rejects, saveDocument catches the error and throws
\* AppError('Failed to save the document', 500)
InsertFail(a) ==
    /\ att[a].pc = "insert"
    /\ att' = [att EXCEPT ![a].pc = "done", ![a].outcome = "failed"]
    /\ UNCHANGED <<inventory, orders, clock, win, rest>>

ServerError == 500

\* what DataAccess.saveDocument hands to its caller: the saved document, or
\* for every error of save(), whichever it was,
\* throw new AppError('Failed to save the document', 500)
thrown(r) ==
    IF r.outcome \in {"invalid", "error", "failed"}
    THEN [message |-> "Failed to save the document", statusCode |-> ServerError]
    ELSE [message |-> "none", statusCode |-> 0]

\* the steps of a save under way
Step(a) ==
    \/ ValidateFail(a)
    \/ ValidateOk(a)
    \/ \E i \in 1..MaxItems :
          \/ ItemFind(a, i)
          \/ ItemMissing(a, i)
          \/ ItemInsufficient(a, i)
          \/ ItemReserve(a, i)
    \/ HookEnd(a)
    \/ InsertOk(a)
    \/ InsertFail(a)

(***************************************************************************)
(* Concurrent saves: NumAttempts clients place orders, each request giving *)
(* its line items and its scheduled time (isSelfCollection and totalPrice  *)
(* take the schema's defaults).  The line items ask for positive           *)
(* quantities of the dishes of the catalog, or for one unit of a dish that *)
(* does not exist.                                                         *)
(***************************************************************************)
RaceItems ==
    [dish : Dishes, quantity : 1..MaxQty] \cup {[dish |-> "X", quantity |-> 1]}

RaceLists == UNION {[1..n -> RaceItems] : n \in 0..MaxItems}

Next ==
    \E a \in Attempts :
        \/ \E ds \in RaceLists, at \in ScheduledTimes : Submit(a, ds, FALSE, at, 0)
        \/ Step(a)

Spec == Init /\ [][Next]_vars

(***************************************************************************)
(* One save on its own, over every shape of request.                       *)
(***************************************************************************)
NextSolo ==
    \/ \E ds \in DishLists, self \in BOOLEAN, at \in ScheduledTimes,
          total \in {0, ClientTotal} : Submit(1, ds, self, at, total)
    \/ Step(1)

SpecSolo == Init /\ [][NextSolo]_vars

(***************************************************************************)
(* The orderScheduled validator on its own: the value is validated by a    *)
(* call that reads the clock twice (two new Date()), and the clock may     *)
(* advance at any moment.                                                  *)
(***************************************************************************)
Offsets == {0 - Second, -1, 0, 1, Second}

WindowValues ==
    {addHours(t, h) + e : t \in 0..MaxClock, h \in {1, 6}, e \in Offsets}

Tick ==
    /\ clock < MaxClock
    /\ clock' = clock + 1
    /\ UNCHANGED <<inventory, orders, att, win, rest>>

\* validator(value) is called
WinCall(v) ==
    /\ win.pc = "idle"
    /\ win' = [win EXCEPT !.pc = "first", !.value = v]
    /\ UNCHANGED <<inventory, orders, att, clock, rest>>

\* const oneHourLater = new Date(); oneHourLater.setHours(... + 1)
WinFirst ==
    /\ win.pc = "first"
    /\ win' = [win EXCEPT !.pc = "second", !.now1 = clock]
    /\ UNCHANGED <<inventory, orders, att, clock, rest>>

\* const sixHoursLater = new Date(); sixHoursLater.setHours(... + 6); return
WinSecond ==
    /\ win.pc = "second"
    /\ win' = [win EXCEPT !.pc = "returned", !.now2 = clock,
                          !.result = inWindow(win.value, addHours(win.now1, 1),
                                              addHours(clock, 6))]
    /\ UNCHANGED <<inventory, orders, att, clock, rest>>

NextWindow ==
    \/ Tick
    \/ \E v \in WindowValues : WinCall(v)
    \/ WinFirst
    \/ WinSecond

SpecWindow == Init /\ [][NextWindow]_vars

(***************************************************************************)
(* One save over every shape of schedule and delivery target, with time    *)
(* passing between the construction of the document, its validation and    *)
(* the steps of the hook.                                                  *)
(***************************************************************************)
Pause ==
    /\ clock < MaxPause * Minute
    /\ clock' = clock + Minute
    /\ UNCHANGED <<inventory, orders, att, win, rest>>

Bodies ==
    [dishes : RaceLists, isSelfCollection : BOOLEAN, omitted : BOOLEAN,
     orderScheduled : {addHours(0, 1) - Second, addHours(MaxPause * Minute, 1)},
     coordinates : BOOLEAN, address : BOOLEAN, totalPrice : {0}]

NextRequest ==
    \/ Pause
    \/ \E body \in Bodies : Build(1, body)
    \/ Step(1)

SpecRequest == Init /\ [][NextRequest]_vars

(***************************************************************************)
(* Later operations on a persisted order and on the catalog: the price of  *)
(* a dish is changed, the order is read, its completion flag is set with   *)
(* DataAccess.updateById or by assigning it and saving the document again. *)
(***************************************************************************)
Prices == {PriceA, PriceB}

\* DataAccess.updateById('Dish', id, {price: p})
ChangePrice(d, p) ==
    /\ p # priceOf[d]
    /\ priceOf' = [priceOf EXCEPT ![d] = p]
    /\ UNCHANGED <<inventory, orders, att, clock, win, view, users, auth>>

RECURSIVE repriced(_)
\* the sum over the line items of the dish's present price * quantity
repriced(ds) ==
    IF ds = <<>> THEN 0
    ELSE (IF Head(ds).dish \in Dishes
          THEN priceOf[Head(ds).dish] * Head(ds).quantity ELSE 0)
         + repriced(Tail(ds))

\* the total computed again from the populated dishes when the order is read
populatedRepriced(o) ==
    [id |-> o.id,
     totalPrice |-> repriced(o.dishes) + deliveryFee(o.isSelfCollection),
     isItDone |-> o.isItDone,
     prices |-> [i \in 1..Len(o.dishes) |->
                    IF o.dishes[i].dish \in Dishes
                    THEN priceOf[o.dishes[i].dish] ELSE 0]]

\* orderSchema.pre(/^find/): select('-orderTime -__v') and populate of
\* dishes.dish; the stored fields are returned as they are, each line item
\* with the dish document as it is now
populated(o) ==
    [id |-> o.id,
     totalPrice |-> o.totalPrice,
     isItDone |-> o.isItDone,
     prices |-> [i \in 1..Len(o.dishes) |->
                    IF o.dishes[i].dish \in Dishes
                    THEN priceOf[o.dishes[i].dish] ELSE 0]]

\* DataAccess.findById('Order', id)
ReadOrder(id) ==
    /\ \E o \in orders : o.id = id /\ view' = populated(o)
    /\ UNCHANGED <<inventory, orders, att, clock, win, priceOf, users, auth>>

\* the paths an update may name, and updateData as the set of the paths it
\* names with a value for each
Paths == {"isItDone", "totalPrice", "dishes", "orderScheduled"}

\* runValidators: true runs the validators of the paths that are set
updateValid(data) ==
    "orderScheduled" \in data.paths
        => inWindow(data.orderScheduled, addHours(clock, 1), addHours(clock, 6))

\* Model.findByIdAndUpdate(id, updateData, {new: true, ...}): the paths of
\* updateData are set on the stored document; no save hook runs
updated(o, data) ==
    [o EXCEPT !.isItDone = IF "isItDone" \in data.paths THEN data.isItDone ELSE @,
              !.totalPrice = IF "totalPrice" \in data.paths
                             THEN data.totalPrice ELSE @,
              !.dishes = IF "dishes" \in data.paths THEN data.dishes ELSE @,
              !.orderScheduled = IF "orderScheduled" \in data.paths
                                 THEN data.orderScheduled ELSE @]

\* DataAccess.updateById('Order', id, updateData)
UpdateById(id, data) ==
    /\ \E o \in orders : o.id = id
    /\ updateValid(data)
    /\ orders' = {IF o.id = id THEN updated(o, data) ELSE o : o \in orders}
    /\ UNCHANGED <<inventory, att, clock, win, rest>>

\* the document of a persisted order, with isItDone and dishes assigned by
\* the caller, is saved again: isNew is false, a path is modified when the
\* value assigned differs from the stored one
Resave(a, flag, ds) ==
    /\ att[a].pc = "done"
    /\ \E o \in orders :
          /\ o.id = a
          /\ att' = [att EXCEPT ![a] =
                       [Idle EXCEPT !.pc = "validate", !.id = a,
                                    !.dishes = ds,
                                    !.isSelfCollection = o.isSelfCollection,
                                    !.orderScheduled = o.orderScheduled,
                                    !.coordinates = o.coordinates,
                                    !.address = o.address,
                                    !.totalPrice = o.totalPrice,
                                    !.sent = att[a].sent,
                                    !.isNew = FALSE,
                                    !.dirty = (ds # o.dishes),
                                    !.isItDone = flag,
                                    !.flagged = (flag # o.isItDone)]]
    /\ UNCHANGED <<inventory, orders, clock, win, rest>>

FulfilTimes == {addHours(0, 1), addHours(MaxPause * Minute, 1)}

FulfilLists ==
    {<<[dish |-> d, quantity |-> 1]>> : d \in DishIds}
        \cup {<<[dish |-> "A", quantity |-> MaxQty], [dish |-> "B", quantity |-> 1]>>,
              <<[dish |-> "B", quantity |-> InvB + 1]>>}

FlagUpdates ==
    [paths : {{"isItDone"}}, isItDone : BOOLEAN, totalPrice : {0},
     dishes : {<<>>}, orderScheduled : {0}]

\* one order is placed; afterwards prices change, the order is read and its
\* completion flag is set, while time passes
NextFulfil ==
    \/ Pause
    \/ \E ds \in FulfilLists, self \in BOOLEAN, at \in FulfilTimes :
          Submit(1, ds, self, at, 0)
    \/ Step(1)
    \/ \E d \in Dishes, p \in Prices : ChangePrice(d, p)
    \/ ReadOrder(1)
    \/ \E data \in FlagUpdates : UpdateById(1, data)
    \/ \E flag \in BOOLEAN : \E o \in orders : Resave(o.id, flag, o.dishes)

SpecFulfil == Init /\ [][NextFulfil]_vars

(***************************************************************************)
(* One order is placed and then edited: saved again with other line items, *)
(* or updated with DataAccess.updateById on any of its paths.              *)
(***************************************************************************)
EditLists == {<<[dish |-> d, quantity |-> 1]>> : d \in DishIds}

Updates ==
    [paths : {{p} : p \in Paths}, isItDone : BOOLEAN, totalPrice : {ClientTotal},
     dishes : EditLists, orderScheduled : {addHours(0, 2)}]

NextEdit ==
    \/ \E ds \in EditLists, self \in BOOLEAN, at \in ScheduledTimes :
          Submit(1, ds, self, at, 0)
    \/ Step(1)
    \/ \E data \in Updates : UpdateById(1, data)
    \/ \E flag \in BOOLEAN, ds \in EditLists : Resave(1, flag, ds)

SpecEdit == Init /\ [][NextEdit]_vars

(***************************************************************************)
(* exports.protect: a request passes through the middleware while users    *)
(* are deleted.                                                            *)
(***************************************************************************)
Unauthorized == 401
NotFound == 404

Authorizations ==
    {[scheme |-> "none", token |-> NoToken], [scheme |-> "Basic", token |-> NoToken]}
        \cup [scheme : {"Bearer"}, token : Tokens \cup {NoToken}]

Cookies == Tokens \cup {NoToken}

\* DataAccess.deleteById('User', id)
DeleteUser(u) ==
    /\ u \in users
    /\ users' = users \ {u}
    /\ UNCHANGED <<inventory, orders, att, clock, win, priceOf, view, auth>>

\* a request arrives at the middleware
Request(h, c) ==
    /\ auth.pc = "idle"
    /\ auth' = [IdleAuth EXCEPT !.pc = "token", !.authorization = h, !.cookie = c]
    /\ UNCHANGED <<inventory, orders, att, clock, win, priceOf, view, users>>

\* next(err) with an AppError, or an error thrown by an awaited call
refused(r, how, code, text) ==
    [r EXCEPT !.pc = "done", !.outcome = how, !.statusCode = code, !.message = text]

\* 1) the token of the Authorization header when it starts with 'Bearer',
\* else the jwt cookie;  if (!token) return next(new AppError(..., 401))
GetToken ==
    /\ auth.pc = "token"
    /\ LET token == IF auth.authorization.scheme = "Bearer"
                    THEN auth.authorization.token
                    ELSE auth.cookie
       IN  auth' = IF token = NoToken
                   THEN refused(auth, "nextError", Unauthorized,
                                "You are not logged in! Please log in to get access.")
                   ELSE [auth EXCEPT !.pc = "verify", !.token = token]
    /\ UNCHANGED <<inventory, orders, att, clock, win, priceOf, view, users>>

\* 2) const decoded = await promisify(jwt.verify)(token, jwtSecret): throws
\* JsonWebTokenError or TokenExpiredError for a token it does not accept
Verify ==
    /\ auth.pc = "verify"
    /\ auth' = IF auth.token.valid
               THEN [auth EXCEPT !.pc = "find", !.decoded = auth.token.id]
               ELSE refused(auth, "thrown", 0, "JsonWebTokenError")
    /\ UNCHANGED <<inventory, orders, att, clock, win, priceOf, view, users>>

\* DataAccess.findById(modelName, id): the document, or
\* throw new AppError('No document found with that ID', 404) when the query
\* returns null;  document 0 stands for null
findUser(id) ==
    IF id \in users
    THEN [threw |-> FALSE, document |-> id]
    ELSE [threw |-> TRUE, document |-> 0]

\* 3) const currentUser = await dataAccess.findById(userModel, decoded.id);
\* if (!currentUser) return next(new AppError('The user belonging ...', 401))
FindUser ==
    /\ auth.pc = "find"
    /\ LET found == findUser(auth.decoded)
       IN  auth' = IF found.threw
                   THEN refused(auth, "thrown", NotFound,
                                "No document found with that ID")
                   ELSE IF found.document = 0
                   THEN refused(auth, "nextError", Unauthorized,
                                "The user belonging to this token does no longer exist.")
                   ELSE [auth EXCEPT !.pc = "check", !.currentUser = found.document]
    /\ UNCHANGED <<inventory, orders, att, clock, win, priceOf, view, users>>

\* 4) if (currentUser.changedPasswordAfter(decoded.iat)) return next(...401);
\* the method belongs to the user model: either answer
CheckPassword(changed) ==
    /\ auth.pc = "check"
    /\ auth' = IF changed
               THEN refused(auth, "nextError", Unauthorized,
                            "User recently changed password! Please log in again.")
               ELSE [auth EXCEPT !.pc = "grant"]
    /\ UNCHANGED <<inventory, orders, att, clock, win, priceOf, view, users>>

\* req.user = currentUser; next()
Grant ==
    /\ auth.pc = "grant"
    /\ auth' = [auth EXCEPT !.pc = "done", !.user = auth.currentUser,
                            !.outcome = "next"]
    /\ UNCHANGED <<inventory, orders, att, clock, win, priceOf, view, users>>

NextAuth ==
    \/ \E u \in Users : DeleteUser(u)
    \/ \E h \in Authorizations, c \in Cookies : Request(h, c)
    \/ GetToken
    \/ Verify
    \/ FindUser
    \/ \E changed \in BOOLEAN : CheckPassword(changed)
    \/ Grant

SpecAuth == Init /\ [][NextAuth]_vars

(***************************************************************************)
(* Vocabulary of the properties.                                           *)
(***************************************************************************)
RECURSIVE units(_, _)
\* the quantity of dish d asked for by the line items ds, duplicates summed
units(ds, d) ==
    IF ds = <<>> THEN 0
    ELSE (IF Head(ds).dish = d THEN Head(ds).quantity ELSE 0) + units(Tail(ds), d)

RECURSIVE linesTotal(_)
\* the sum over the line items of dish.price * quantity
linesTotal(ds) ==
    IF ds = <<>> THEN 0
    ELSE (IF Head(ds).dish \in Dishes
          THEN price[Head(ds).dish] * Head(ds).quantity ELSE 0)
         + linesTotal(Tail(ds))

RECURSIVE ordered(_, _)
\* the quantity of dish d over the persisted orders of the saves 1..n
ordered(n, d) ==
    IF n = 0 THEN 0
    ELSE (IF \E o \in orders : o.id = n
          THEN units((CHOOSE o \in orders : o.id = n).dishes, d) ELSE 0)
         + ordered(n - 1, d)

Quiescent == \A a \in Attempts : att[a].pc \in {"idle", "done"}
Alone(a) == \A b \in Attempts \ {a} : att[b].pc = "idle"
Persisted(a) == \E o \in orders : o.id = a
NoDuplicate(ds) ==
    \A i, j \in 1..Len(ds) : ds[i].dish = ds[j].dish => i = j
OneUnitOf(d) == <<[dish |-> d, quantity |-> 1]>>
Count(how) == Cardinality({a \in Attempts : att[a].outcome = how})
Rejected(r) == r.pc = "done" /\ r.outcome \in {"invalid", "error", "failed"}
\* retrying the same input is pointless: validation, schedule, dish not found
NonRetryable(r) ==
    r.outcome = "invalid" \/ (r.outcome = "error" /\ r.error = "DishNotFound")
\* retrying may succeed: insufficient stock, persistence failure
Retryable(r) ==
    r.outcome = "failed" \/ (r.outcome = "error" /\ r.error = "NotEnoughInventory")

(***************************************************************************)
(* C1: for a dish with inventory N and M > N concurrent placements of one  *)
(* unit each, all of them valid and none meeting a persistence failure,    *)
(* exactly N placements succeed, exactly M - N are rejected for            *)
(* insufficient stock and the final inventory is 0.                        *)
(***************************************************************************)
C1_ExactlyNSucceed ==
    \A d \in Dishes :
        (/\ NumAttempts > InitInventory[d]
         /\ \A a \in Attempts :
               /\ att[a].pc = "done"
               /\ att[a].dishes = OneUnitOf(d)
               /\ att[a].outcome \notin {"invalid", "failed"})
        => /\ Count("saved") = InitInventory[d]
           /\ Count("error") = NumAttempts - InitInventory[d]
           /\ inventory[d] = 0

(***************************************************************************)
(* C2: in every quiescent state, for every dish the initial inventory      *)
(* minus the current inventory equals the quantity of that dish over all   *)
(* persisted orders.  Stated for the runs in which every save that ended   *)
(* was persisted and no order names a dish twice, so that only the         *)
(* interleaving of concurrent placements is left to break it.              *)
(***************************************************************************)
C2_StockMatchesOrders ==
    (/\ Quiescent
     /\ \A a \in Attempts :
           att[a].pc = "done" =>
               att[a].outcome = "saved" /\ NoDuplicate(att[a].dishes))
    => \A d \in Dishes : InitInventory[d] - inventory[d] = ordered(NumAttempts, d)

(***************************************************************************)
(* C3: after a placement, running alone, of line items for distinct dishes *)
(* of which at least one fails for insufficient stock, the inventory of    *)
(* every dish of the order equals its value before the attempt.            *)
(***************************************************************************)
C3_NoPartialDecrement ==
    \A a \in Attempts :
        (/\ att[a].pc = "done"
         /\ Alone(a)
         /\ NoDuplicate(att[a].dishes)
         /\ \E i \in 1..Len(att[a].dishes) :
               /\ att[a].dishes[i].dish \in Dishes
               /\ InitInventory[att[a].dishes[i].dish] < att[a].dishes[i].quantity)
        => \A j \in 1..Len(att[a].dishes) :
              att[a].dishes[j].dish \in Dishes =>
                  inventory[att[a].dishes[j].dish]
                      = InitInventory[att[a].dishes[j].dish]

(***************************************************************************)
(* C4: a dish's inventory is never negative, in any reachable state of any *)
(* interleaving of placements, orders with several line items for the same *)
(* dish included.                                                          *)
(***************************************************************************)
C4_InventoryNeverNegative == \A d \in Dishes : inventory[d] >= 0

\* two line items for the same dish were reserved and the dish is sold out
C4_Witness ==
    \E o \in orders :
        /\ Len(o.dishes) = 2
        /\ o.dishes[1].dish = o.dishes[2].dish
        /\ inventory[o.dishes[1].dish] = 0

(***************************************************************************)
(* C5: an order, placed alone, with two or more line items naming the same *)
(* dish: when the stock covers the summed quantity a successful placement  *)
(* lowers the inventory by exactly that sum, and when it does not the      *)
(* order is rejected.                                                      *)
(***************************************************************************)
C5_DuplicatesSummed ==
    \A a \in Attempts : \A d \in Dishes :
        (/\ att[a].pc = "done"
         /\ Alone(a)
         /\ Len(att[a].dishes) >= 2
         /\ \A i \in 1..Len(att[a].dishes) :
               att[a].dishes[i].dish = d /\ att[a].dishes[i].quantity > 0)
        => IF units(att[a].dishes, d) <= InitInventory[d]
           THEN att[a].outcome = "saved" =>
                    inventory[d] = InitInventory[d] - units(att[a].dishes, d)
           ELSE att[a].outcome # "saved"

(***************************************************************************)
(* C6: when persisting the order fails after the hook decremented its      *)
(* dishes, every dish is back at its pre-attempt inventory when the        *)
(* failure is reported (the save running alone).                           *)
(***************************************************************************)
C6_ReleasedOnPersistenceFailure ==
    \A a \in Attempts :
        (att[a].pc = "done" /\ att[a].outcome = "failed" /\ Alone(a))
        => inventory = InitInventory

(***************************************************************************)
(* C7: every newly persisted order has totalPrice equal to the sum over    *)
(* its line items of dish.price * quantity, plus the surcharge 30 exactly  *)
(* when isSelfCollection is false, whatever totalPrice the client sent.    *)
(***************************************************************************)
C7_TotalPriceDerived ==
    \A o \in orders :
        o.totalPrice = linesTotal(o.dishes)
                         + (IF o.isSelfCollection THEN 0 ELSE 30)

\* prices 10 x 2 and 5 x 1 with delivery, the client having sent another total
C7_Witness ==
    \E o \in orders :
        /\ o.dishes = <<[dish |-> "A", quantity |-> 2], [dish |-> "B", quantity |-> 1]>>
        /\ ~o.isSelfCollection
        /\ o.totalPrice = 2 * PriceA + PriceB + 30
        /\ att[o.id].sent = ClientTotal

(***************************************************************************)
(* C8: a placement whose line-item list is empty, or that has a line item  *)
(* with quantity <= 0, is rejected before any side effect: from the moment *)
(* it is submitted no order is persisted and no inventory changes.         *)
(***************************************************************************)
C8_BadLinesRejected ==
    \A a \in Attempts :
        (/\ att[a].pc # "idle"
         /\ Alone(a)
         /\ \/ att[a].dishes = <<>>
            \/ \E i \in 1..Len(att[a].dishes) : att[a].dishes[i].quantity <= 0)
        => orders = {} /\ inventory = InitInventory

(***************************************************************************)
(* C9: a placement in which a line item names a dish that does not exist   *)
(* is rejected as a whole: its save ends with an error, never reaches the  *)
(* insert, and no order of it is persisted (so none that leaves the        *)
(* unresolved line item out of the reservation and the total).             *)
(***************************************************************************)
C9_MissingDishRejected ==
    \A a \in Attempts :
        (\E i \in 1..Len(att[a].dishes) : att[a].dishes[i].dish \notin Dishes)
        => /\ att[a].pc # "insert"
           /\ att[a].pc = "done" => att[a].outcome \in {"invalid", "error"}
           /\ ~Persisted(a)

\* an order of an existing and a missing dish went through the hook
C9_Witness ==
    \E a \in Attempts :
        /\ att[a].pc = "done"
        /\ att[a].outcome = "error"
        /\ att[a].dishes = <<[dish |-> "A", quantity |-> 1], [dish |-> "X", quantity |-> 1]>>

(***************************************************************************)
(* C10: when both clock reads of a validation return the instant T, the    *)
(* scheduled time s is accepted if and only if T + 1h <= s <= T + 6h:      *)
(* T + 1h and T + 6h are accepted, T + 1h - 1s and T + 6h + 1s rejected.   *)
(***************************************************************************)
C10_WindowBoundaries ==
    (win.pc = "returned" /\ win.now1 = win.now2)
    => LET T == win.now1
           s == win.value
       IN  /\ win.result <=> (T + Hour <= s /\ s <= T + 6 * Hour)
           /\ s = T + Hour => win.result
           /\ s = T + Hour - Second => ~win.result
           /\ s = T + 6 * Hour => win.result
           /\ s = T + 6 * Hour + Second => ~win.result

\* the earliest time of the window was validated, and accepted
C10_Witness ==
    /\ win.pc = "returned"
    /\ win.now1 = win.now2
    /\ win.value = win.now1 + Hour
    /\ win.result

(***************************************************************************)
(* C11: a placement that omits the scheduled time (its delivery target     *)
(* well formed) gets the default and is never rejected as out of window.   *)
(***************************************************************************)
C11_DefaultNeverRejected ==
    \A a \in Attempts :
        (/\ att[a].pc = "done"
         /\ att[a].omitted
         /\ att[a].isSelfCollection \/ (att[a].coordinates /\ att[a].address))
        => att[a].outcome # "invalid"

(***************************************************************************)
(* C12: every persisted order has isSelfCollection true XOR                *)
(* (location.coordinates and location.address both present); a placement   *)
(* that gives both forms of delivery target, or neither, is not persisted. *)
(***************************************************************************)
C12_ExactlyOneTarget ==
    \A o \in orders : o.isSelfCollection # (o.coordinates /\ o.address)

(***************************************************************************)
(* C13: a placement whose scheduled time is before the window or whose     *)
(* delivery target is invalid (both forms, or neither) is rejected with no *)
(* side effect, and no inventory is decremented while a save is still to   *)
(* be validated.                                                           *)
(***************************************************************************)
C13_ValidationBeforeReservation ==
    \A a \in Attempts :
        /\ (att[a].pc = "validate" /\ Alone(a)) => inventory = InitInventory
        /\ (/\ att[a].pc # "idle"
            /\ Alone(a)
            /\ att[a].isNew
            /\ \/ att[a].orderScheduled < addHours(0, 1)
               \/ att[a].isSelfCollection = (att[a].coordinates /\ att[a].address))
           => inventory = InitInventory /\ ~Persisted(a)

(***************************************************************************)
(* C14: once an order is persisted, no step of a later operation on it     *)
(* (saving the document again, updateById) changes its line items, its     *)
(* totalPrice or its scheduled time, and none changes a dish's inventory.  *)
(***************************************************************************)
C14_PersistedOrderImmutable ==
    [][/\ \A o \in orders : \E p \in orders' :
             /\ p.id = o.id
             /\ p.dishes = o.dishes
             /\ p.totalPrice = o.totalPrice
             /\ p.orderScheduled = o.orderScheduled
       /\ (\E o \in orders : Alone(o.id)) => inventory' = inventory]_vars

(***************************************************************************)
(* C15: the line items of one save are reserved one at a time in the order *)
(* given (the task of item j has gone past its read of the dish only when  *)
(* every earlier task has returned), and when the hook reported a failure  *)
(* of a save running alone every reservation it made has been released.    *)
(***************************************************************************)
C15_OneAtATimeWithRelease ==
    \A a \in Attempts :
        /\ att[a].pc = "hook" =>
               \A i, j \in 1..Len(att[a].dishes) :
                   (i < j /\ att[a].task[j] # "find") => att[a].task[i] = "end"
        /\ (att[a].pc = "done" /\ att[a].outcome = "error" /\ Alone(a))
               => inventory = InitInventory

(***************************************************************************)
(* C16: no step changes the totalPrice of a persisted order: not a change  *)
(* of a dish's price, not a read of the order (which returns the stored    *)
(* totalPrice), not an update of its completion flag.                      *)
(***************************************************************************)
C16_PriceChangeKeepsTotal ==
    [][/\ \A o \in orders : \E p \in orders' :
             p.id = o.id /\ p.totalPrice = o.totalPrice
       /\ priceOf' # priceOf => orders' = orders
       /\ view' # view =>
             \E o \in orders' : o.id = view'.id /\ view'.totalPrice = o.totalPrice]_vars

\* an order priced at the first prices was flagged as done and read after the
\* price of its first dish had changed
C16_Witness ==
    \E o \in orders :
        /\ o.dishes # <<>>
        /\ o.dishes[1].dish \in Dishes
        /\ priceOf[o.dishes[1].dish] # price[o.dishes[1].dish]
        /\ o.totalPrice = linesTotal(o.dishes) + deliveryFee(o.isSelfCollection)
        /\ o.isItDone
        /\ view = populated(o)

(***************************************************************************)
(* C17: two rejected placements of different classes (one not worth a      *)
(* retry, one worth it) never reach their callers as the same error.       *)
(***************************************************************************)
C17_ReasonTellsRetryable ==
    \A a, b \in Attempts :
        (/\ Rejected(att[a]) /\ NonRetryable(att[a])
         /\ Rejected(att[b]) /\ Retryable(att[b]))
        => thrown(att[a]) # thrown(att[b])

(***************************************************************************)
(* C18: while the document of a persisted order is saved with only its     *)
(* completion flag assigned, no step changes a dish's inventory or the     *)
(* order's line items, totalPrice or scheduled time.                       *)
(***************************************************************************)
C18_FlagSaveChangesNothingElse ==
    [][\A a \in Attempts :
          (/\ att[a].pc \in {"validate", "hook", "insert"}
           /\ ~att[a].isNew
           /\ ~att[a].dirty
           /\ Alone(a))
          => /\ inventory' = inventory
             /\ \A o \in orders : \E p \in orders' :
                   /\ p.id = o.id
                   /\ p.dishes = o.dishes
                   /\ p.totalPrice = o.totalPrice
                   /\ p.orderScheduled = o.orderScheduled]_vars

\* the flag of a persisted order was set by a save of its document
C18_Witness ==
    \E o \in orders :
        /\ o.isItDone
        /\ o.dishes # <<>>
        /\ ~att[o.id].isNew
        /\ att[o.id].flagged
        /\ att[o.id].isItDone
        /\ att[o.id].outcome = "saved"

(***************************************************************************)
(* C19: the pre-save hook calls next at most once per save, and a hook     *)
(* that has returned called it exactly once: with an error when a line     *)
(* item failed, without one otherwise.                                     *)
(***************************************************************************)
C19_NextCalledOnce ==
    \A a \in Attempts :
        /\ Len(att[a].nextCalls) <= 1
        /\ att[a].pc \in {"insert", "done"} /\ att[a].outcome # "invalid"
               => Len(att[a].nextCalls) = 1

(***************************************************************************)
(* C20: when protect was given a token that jwt.verify accepts and the     *)
(* lookup of its user found none, the request ends with the 401 error      *)
(* 'The user belonging to this token does no longer exist.', req.user is   *)
(* not set and the protected route is not reached.                         *)
(***************************************************************************)
C20_DeletedUserGets401 ==
    (auth.pc = "done" /\ auth.decoded # 0 /\ auth.currentUser = 0)
    => /\ auth.statusCode = 401
       /\ auth.message = "The user belonging to this token does no longer exist."
       /\ auth.user = 0
       /\ auth.outcome # "next"

====
